---- MODULE Spec2Model ----
(***************************************************************************)
(* RLcycle: the DQN training loop (dqn_base/agent.py), n-step aggregation  *)
(* and target synchronisation (common/utils/common_utils.py), the C51      *)
(* categorical loss (dqn_base/loss.py) and the A2C learner's update        *)
(* (a2c/learner.py).                                                       *)
(*                                                                         *)
(* Real numbers are exact rationals: a pair <<num, den>> with den > 0.     *)
(* Floating-point rounding is not modelled.                                *)
(***************************************************************************)
EXTENDS Integers, Sequences, FiniteSets, TLC

\* ------------------------------------------------------------------ bounds
\* hyper_params.n_step ranges over 1..MaxNStep (1 disables n-step).
MaxNStep == 3
\* hyper_params.train_freq ranges over 1..MaxTrainFreq.
MaxTrainFreq == 2
\* hyper_params.update_starting_point ranges over 1..MaxStartingPoint.
MaxStartingPoint == 2
\* experiment_info.total_num_episodes.
TotalNumEpisodes == 2
\* experiment_info.test_interval ranges over 1..MaxTestInterval.
MaxTestInterval == 2
\* The environment ends an episode after at most MaxEpisodeLen steps.
MaxEpisodeLen == 3
\* The reward the modelled environment pays per step in the training loop.
EnvReward == 1
\* hyper_params.gamma = GammaNum / GammaDen in the training loop; the n-step
\* aggregator is also exercised with every gamma k / GammaDen, k in 0..GammaDen.
GammaNum == 9
GammaDen == 10

VARIABLES
    \* DQNBaseAgent
    hyper_params,       \* n_step, gamma, update_starting_point, train_freq, use_per
    experiment_info,    \* total_num_episodes, log_wandb, test_interval
    pc,                 \* position of train(): idle, reset, step, episode_end, done, aborted
    episode_i,          \* the for loop's index
    ep_t,               \* steps taken in the current episode (the env's clock)
    step,               \* train()'s local step counter
    done,               \* the last env.step's terminal flag
    transition_queue,   \* self.transition_queue, deque(maxlen = n_step)
    replay_buffer,      \* the transitions handed to replay_buffer.add, in order
    update_step,        \* self.update_step
    sample_calls,       \* number of replay_buffer.sample() calls
    update_calls,       \* number of learner.update_model() calls
    decay_calls,        \* number of action_selector.decay_epsilon() calls
    raised,             \* the call whose exception left train(), or "none"
    \* preprocess_nstep
    n_step_queue,       \* the argument n_step_queue
    nstep_gamma,        \* the argument gamma
    n_step_transition,  \* <<the returned transition>>, or <<>> before the call
    \* soft_update / hard_update
    network,            \* network.parameters()
    target_network,     \* target_network.parameters()
    sync_before,        \* both parameter lists before the last update
    last_sync,          \* the last update: its name and its tau
    sync_calls,         \* updates applied so far
    \* A2CLearner
    critic,             \* the critic's parameter
    actor,              \* the actor's parameter
    optimizer_steps,    \* critic_optimizer.step() and actor_optimizer.step() calls
    at_call,            \* critic, actor and optimizer_steps when update_model was entered
    learner_status,     \* idle, returned, or the statement that raised
    learner_calls,      \* update_model calls so far
    \* CategoricalLoss
    loss_in,            \* the batch and the target network's output
    loss_out            \* <<the values __call__ computes>>, or <<>> before the call

agent_vars == <<hyper_params, experiment_info, pc, episode_i, ep_t, step, done,
                transition_queue, replay_buffer, update_step, sample_calls,
                update_calls, decay_calls, raised>>

nstep_vars == <<n_step_queue, nstep_gamma, n_step_transition>>

sync_vars == <<network, target_network, sync_before, last_sync, sync_calls>>

learner_vars == <<critic, actor, optimizer_steps, at_call, learner_status, learner_calls>>

loss_vars == <<loss_in, loss_out>>

vars == <<agent_vars, nstep_vars, sync_vars, learner_vars, loss_vars>>

\* ------------------------------------------------------------- rationals
Rat(n, d) == <<n, d>>

RatEq(a, b) == a[1] * b[2] = b[1] * a[2]

RatLe(a, b) == a[1] * b[2] <= b[1] * a[2]

RECURSIVE Gcd(_, _)
Gcd(a, b) == IF b = 0 THEN a ELSE Gcd(b, a % b)

Abs(x) == IF x < 0 THEN -x ELSE x

\* The same rational in lowest terms.
RatNorm(a) == LET g == Gcd(Abs(a[1]), a[2]) IN Rat(a[1] \div g, a[2] \div g)

RatAdd(a, b) == RatNorm(Rat(a[1] * b[2] + b[1] * a[2], a[2] * b[2]))

RatSub(a, b) == RatNorm(Rat(a[1] * b[2] - b[1] * a[2], a[2] * b[2]))

RatMul(a, b) == RatNorm(Rat(a[1] * b[1], a[2] * b[2]))

RECURSIVE Pow(_, _)
Pow(b, e) == IF e = 0 THEN 1 ELSE b * Pow(b, e - 1)

\* --------------------------------------------------- common_utils.py
\* list(reversed(n_step_queue))
Reversed(q) == [i \in 1..Len(q) |-> q[Len(q) + 1 - i]]

\* The queue in the order the claimed formula walks it: oldest first.
preprocess_nstep_order_forward(q) == q

\* The order in which preprocess_nstep walks the queue: newest first.
preprocess_nstep_order(q) == Reversed(q)

\* The for loop of preprocess_nstep over the first k transitions of `order`:
\* discounted_reward = reward + gamma * discounted_reward, from 0.
RECURSIVE DiscountLoop(_, _, _)
DiscountLoop(order, k, gamma) ==
    IF k = 0 THEN Rat(0, 1)
    ELSE LET d == DiscountLoop(order, k - 1, gamma)
         IN  RatAdd(Rat(order[k].reward, 1), RatMul(gamma, d))

\* preprocess_nstep(n_step_queue, gamma): state and action are the loop
\* variables after the last iteration (the oldest transition), last_state and
\* done come from n_step_queue[-1].
preprocess_nstep(queue, gamma) ==
    LET order == preprocess_nstep_order(queue)
        last  == order[Len(order)]
    IN  [state      |-> last.state,
         action     |-> last.action,
         reward     |-> DiscountLoop(order, Len(order), gamma),
         next_state |-> queue[Len(queue)].next_state,
         done       |-> queue[Len(queue)].done]

\* ----------------------------------------------------- dqn_base/agent.py
\* deque(maxlen = n).append(x): the oldest element is dropped on overflow.
DequeAppend(q, x, n) ==
    IF Len(q) < n THEN Append(q, x) ELSE Append(Tail(q), x)

use_n_step == hyper_params.n_step > 1

\* A gate that forgets the warm-up threshold.
ShouldUpdateNoWarmup(buffer_len, s) == s % hyper_params.train_freq = 0

\* Lines 114-115: the update gate.
ShouldUpdate(buffer_len, s) ==
    /\ buffer_len >= hyper_params.update_starting_point
    /\ s % hyper_params.train_freq = 0

\* Epsilon decayed on every environment step.
DecayAfterPerStep(calls, fired) == calls + 1

\* Line 129: decay_epsilon() sits inside the gated block.
DecayAfter(calls, fired) == IF fired THEN calls + 1 ELSE calls

\* A queue that is emptied once its window has been aggregated.
QueueAfterAddCleared(q) == IF Len(q) = hyper_params.n_step THEN <<>> ELSE q

\* Lines 104-108: the queue is left as it is after the window is aggregated.
QueueAfterAdd(q) == q

\* Lines 101-110: what the step's transition does to the queue and the buffer.
StoreTransition(transition) ==
    IF use_n_step
    THEN LET q == DequeAppend(transition_queue, transition, hyper_params.n_step)
         IN  [queue  |-> QueueAfterAdd(q),
              buffer |-> IF Len(q) = hyper_params.n_step
                         THEN Append(replay_buffer,
                                     preprocess_nstep(q, hyper_params.gamma))
                         ELSE replay_buffer]
    ELSE [queue  |-> transition_queue,
          buffer |-> Append(replay_buffer,
                            [transition EXCEPT !.reward = Rat(transition.reward, 1)])]

\* One iteration of the while loop (lines 92-129). `outcome` is "ok", or the
\* call inside the gated block that raises.
TrainStep(outcome) ==
    /\ pc = "step"
    /\ \E d \in BOOLEAN :
        /\ (ep_t + 1 >= MaxEpisodeLen) => d
        /\ LET transition == [state      |-> <<episode_i, ep_t>>,
                              action     |-> 0,
                              reward     |-> EnvReward,
                              next_state |-> <<episode_i, ep_t + 1>>,
                              done       |-> d]
               stored == StoreTransition(transition)
               fired  == ShouldUpdate(Len(stored.buffer), step + 1)
           IN  /\ outcome # "ok" => fired
               /\ outcome = "update_priorities" => hyper_params.use_per
               /\ step' = step + 1
               /\ ep_t' = ep_t + 1
               /\ done' = d
               /\ transition_queue' = stored.queue
               /\ replay_buffer' = stored.buffer
               /\ sample_calls' = IF fired THEN sample_calls + 1 ELSE sample_calls
               /\ update_calls' = IF fired THEN update_calls + 1 ELSE update_calls
               /\ update_step' = IF fired /\ outcome # "update_model"
                                 THEN update_step + 1 ELSE update_step
               /\ decay_calls' = DecayAfter(decay_calls, fired /\ outcome = "ok")
               /\ raised' = IF outcome = "ok" THEN raised ELSE outcome
               /\ pc' = IF outcome # "ok" THEN "aborted"
                        ELSE IF d THEN "episode_end" ELSE "step"
    /\ UNCHANGED <<hyper_params, experiment_info, episode_i>>
    /\ UNCHANGED <<nstep_vars, sync_vars, learner_vars, loss_vars>>

EnvStep == TrainStep("ok")

EnvStepUpdateModelRaises == TrainStep("update_model")

EnvStepUpdatePrioritiesRaises == TrainStep("update_priorities")

\* Line 86-90: the for loop's head; env.reset() starts the next episode.
Reset ==
    /\ pc = "reset"
    /\ IF episode_i < experiment_info.total_num_episodes
       THEN /\ pc' = "step"
            /\ ep_t' = 0
            /\ done' = FALSE
       ELSE /\ pc' = "done"
            /\ UNCHANGED <<ep_t, done>>
    /\ UNCHANGED <<hyper_params, experiment_info, episode_i, step, transition_queue,
                   replay_buffer, update_step, sample_calls, update_calls,
                   decay_calls, raised>>
    /\ UNCHANGED <<nstep_vars, sync_vars, learner_vars, loss_vars>>

is_test_episode == episode_i % experiment_info.test_interval = 0

\* Lines 136-154 hold no try/except: an exception leaves train().
EpisodeEndPc(outcome) == IF outcome = "ok" THEN "reset" ELSE "aborted"

\* Lines 131-154: the end of an episode. `outcome` is "ok", or the call that
\* raises: write_log (lines 143, 151) or save_params (line 154).
EpisodeEndWith(outcome) ==
    /\ pc = "episode_end"
    /\ outcome = "write_log" => experiment_info.log_wandb
    /\ outcome = "save_params" => is_test_episode
    /\ raised' = IF outcome = "ok" THEN raised ELSE outcome
    /\ pc' = EpisodeEndPc(outcome)
    /\ episode_i' = IF pc' = "reset" THEN episode_i + 1 ELSE episode_i
    /\ UNCHANGED <<hyper_params, experiment_info, ep_t, step, done, transition_queue,
                   replay_buffer, update_step, sample_calls, update_calls,
                   decay_calls>>
    /\ UNCHANGED <<nstep_vars, sync_vars, learner_vars, loss_vars>>

EpisodeEnd == EpisodeEndWith("ok")

EpisodeEndWriteLogRaises == EpisodeEndWith("write_log")

EpisodeEndSaveParamsRaises == EpisodeEndWith("save_params")

\* DQNBaseAgent.__init__ and the first lines of train().
AgentInit ==
    /\ hyper_params \in [n_step : 1..MaxNStep,
                         gamma : {Rat(GammaNum, GammaDen)},
                         update_starting_point : 1..MaxStartingPoint,
                         train_freq : 1..MaxTrainFreq,
                         use_per : BOOLEAN]
    /\ experiment_info \in [total_num_episodes : {TotalNumEpisodes},
                            log_wandb : BOOLEAN,
                            test_interval : 1..MaxTestInterval]
    /\ pc = "reset"
    /\ episode_i = 0
    /\ ep_t = 0
    /\ step = 0
    /\ done = FALSE
    /\ transition_queue = <<>>
    /\ replay_buffer = <<>>
    /\ update_step = 0
    /\ sample_calls = 0
    /\ update_calls = 0
    /\ decay_calls = 0
    /\ raised = "none"

AgentNext ==
    \/ Reset
    \/ EnvStep
    \/ EnvStepUpdateModelRaises
    \/ EnvStepUpdatePrioritiesRaises
    \/ EpisodeEnd
    \/ EpisodeEndWriteLogRaises
    \/ EpisodeEndSaveParamsRaises

\* ------------------------------------------- components not under study
AgentIdle ==
    /\ hyper_params = [n_step |-> 1, gamma |-> Rat(GammaNum, GammaDen),
                       update_starting_point |-> 1, train_freq |-> 1,
                       use_per |-> FALSE]
    /\ experiment_info = [total_num_episodes |-> 0, log_wandb |-> FALSE,
                          test_interval |-> 1]
    /\ pc = "idle"
    /\ episode_i = 0
    /\ ep_t = 0
    /\ step = 0
    /\ done = FALSE
    /\ transition_queue = <<>>
    /\ replay_buffer = <<>>
    /\ update_step = 0
    /\ sample_calls = 0
    /\ update_calls = 0
    /\ decay_calls = 0
    /\ raised = "none"

NStepIdle ==
    /\ n_step_queue = <<>>
    /\ nstep_gamma = Rat(GammaNum, GammaDen)
    /\ n_step_transition = <<>>

SyncIdle ==
    /\ network = <<>>
    /\ target_network = <<>>
    /\ sync_before = [network |-> <<>>, target_network |-> <<>>]
    /\ last_sync = [op |-> "none", tau |-> Rat(1, 1)]
    /\ sync_calls = 0

LearnerIdle ==
    /\ critic = 0
    /\ actor = 0
    /\ optimizer_steps = [critic |-> 0, actor |-> 0]
    /\ at_call = [critic |-> 0, actor |-> 0,
                  optimizer_steps |-> [critic |-> 0, actor |-> 0]]
    /\ learner_status = "idle"
    /\ learner_calls = 0

LossIdle ==
    /\ loss_in = <<>>
    /\ loss_out = <<>>

\* ------------------------------------------------ the training loop
Init == AgentInit /\ NStepIdle /\ SyncIdle /\ LearnerIdle /\ LossIdle

Next == AgentNext

Spec == Init /\ [][Next]_vars

\* --------------------------------------------------- preprocess_nstep
\* Rewards of the aggregated windows range over 0..MaxReward.
MaxReward == 3

\* A window of n consecutive transitions of one episode with the given rewards.
Window(rewards) ==
    [i \in 1..Len(rewards) |->
        [state      |-> <<0, i - 1>>,
         action     |-> 0,
         reward     |-> rewards[i],
         next_state |-> <<0, i>>,
         done       |-> FALSE]]

NStepInit ==
    /\ \E n \in 1..MaxNStep : \E rewards \in [1..n -> 0..MaxReward] :
           n_step_queue = Window(rewards)
    /\ \E k \in 0..GammaDen : nstep_gamma = Rat(k, GammaDen)
    /\ n_step_transition = <<>>
    /\ AgentIdle /\ SyncIdle /\ LearnerIdle /\ LossIdle

\* The call preprocess_nstep(self.transition_queue, self.hyper_params.gamma).
Aggregate ==
    /\ n_step_transition = <<>>
    /\ n_step_transition' = <<preprocess_nstep(n_step_queue, nstep_gamma)>>
    /\ UNCHANGED <<n_step_queue, nstep_gamma>>
    /\ UNCHANGED <<agent_vars, sync_vars, learner_vars, loss_vars>>

NStepNext == Aggregate

SpecNStep == NStepInit /\ [][NStepNext]_vars

\* ------------------------------------------- soft_update / hard_update
\* Networks hold NumParams parameters, each in 0..MaxParam at the start.
NumParams == 2
MaxParam == 2
\* tau ranges over k / TauDen, k in 1..TauDen.
TauDen == 2
\* At most MaxSyncs target updates are applied.
MaxSyncs == 2

\* zip(network.parameters(), target_network.parameters())
Zip(net, tgt) == 1..(IF Len(net) < Len(tgt) THEN Len(net) ELSE Len(tgt))

\* Polyak averaging with the two weights exchanged.
soft_update_swapped(net, tgt, tau) ==
    [network        |-> net,
     target_network |-> [i \in 1..Len(tgt) |->
         IF i \in Zip(net, tgt)
         THEN RatAdd(RatMul(tgt[i], tau), RatMul(net[i], RatSub(Rat(1, 1), tau)))
         ELSE tgt[i]]]

\* soft_update: target_param <- param * tau + target_param * (1.0 - tau).
soft_update(net, tgt, tau) ==
    [network        |-> net,
     target_network |-> [i \in 1..Len(tgt) |->
         IF i \in Zip(net, tgt)
         THEN RatAdd(RatMul(net[i], tau), RatMul(tgt[i], RatSub(Rat(1, 1), tau)))
         ELSE tgt[i]]]

\* hard_update: target_param <- param.
hard_update(net, tgt) ==
    [network        |-> net,
     target_network |-> [i \in 1..Len(tgt) |->
         IF i \in Zip(net, tgt) THEN net[i] ELSE tgt[i]]]

SyncInit ==
    /\ network \in [1..NumParams -> {Rat(p, 1) : p \in 0..MaxParam}]
    /\ target_network \in [1..NumParams -> {Rat(p, 1) : p \in 0..MaxParam}]
    /\ sync_before = [network |-> network, target_network |-> target_network]
    /\ last_sync = [op |-> "none", tau |-> Rat(1, 1)]
    /\ sync_calls = 0
    /\ AgentIdle /\ NStepIdle /\ LearnerIdle /\ LossIdle

SoftUpdate ==
    /\ sync_calls < MaxSyncs
    /\ \E k \in 1..TauDen :
        LET tau == Rat(k, TauDen)
            after == soft_update(network, target_network, tau)
        IN  /\ network' = after.network
            /\ target_network' = after.target_network
            /\ last_sync' = [op |-> "soft_update", tau |-> tau]
    /\ sync_before' = [network |-> network, target_network |-> target_network]
    /\ sync_calls' = sync_calls + 1
    /\ UNCHANGED <<agent_vars, nstep_vars, learner_vars, loss_vars>>

HardUpdate ==
    /\ sync_calls < MaxSyncs
    /\ LET after == hard_update(network, target_network)
       IN  /\ network' = after.network
           /\ target_network' = after.target_network
    /\ last_sync' = [op |-> "hard_update", tau |-> Rat(1, 1)]
    /\ sync_before' = [network |-> network, target_network |-> target_network]
    /\ sync_calls' = sync_calls + 1
    /\ UNCHANGED <<agent_vars, nstep_vars, learner_vars, loss_vars>>

SyncNext == SoftUpdate \/ HardUpdate

SpecSync == SyncInit /\ [][SyncNext]_vars

\* ------------------------------------------------------ a2c/learner.py
\* At most MaxUpdates calls of update_model are made.
MaxUpdates == 3

\* A2CLearner.update_model (lines 72-106) on the two parameters. `raises` is
\* "none", or the statement that raises: the critic loss (lines 76-86), its
\* backward pass and clipping (lines 89-93), the actor loss (line 97), or its
\* backward pass and clipping (lines 100-102). gc and ga are the changes the
\* two optimizer steps (lines 94 and 103) make.
update_model(c, a, steps, raises, gc, ga) ==
    IF raises \in {"critic_loss_fn", "critic_backward"}
    THEN [critic |-> c, actor |-> a, optimizer_steps |-> steps, status |-> raises]
    ELSE LET c1 == c + gc
             s1 == [steps EXCEPT !.critic = @ + 1]
         IN  IF raises \in {"actor_loss_fn", "actor_backward"}
             THEN [critic |-> c1, actor |-> a, optimizer_steps |-> s1,
                   status |-> raises]
             ELSE [critic |-> c1, actor |-> a + ga,
                   optimizer_steps |-> [s1 EXCEPT !.actor = @ + 1],
                   status |-> "returned"]

\* A2CLearner.__init__: update_step = 0 and freshly built networks.
LearnerInit ==
    /\ critic \in 0..MaxParam
    /\ actor \in 0..MaxParam
    /\ optimizer_steps = [critic |-> 0, actor |-> 0]
    /\ at_call = [critic |-> critic, actor |-> actor,
                  optimizer_steps |-> optimizer_steps]
    /\ learner_status = "idle"
    /\ learner_calls = 0
    /\ AgentIdle /\ NStepIdle /\ SyncIdle /\ LossIdle

\* One call of update_model; an exception ends the run.
UpdateModel ==
    /\ learner_status \in {"idle", "returned"}
    /\ learner_calls < MaxUpdates
    /\ \E raises \in {"none", "critic_loss_fn", "critic_backward",
                      "actor_loss_fn", "actor_backward"} :
       \E gc \in {-1, 1} : \E ga \in {-1, 1} :
        LET after == update_model(critic, actor, optimizer_steps, raises, gc, ga)
        IN  /\ critic' = after.critic
            /\ actor' = after.actor
            /\ optimizer_steps' = after.optimizer_steps
            /\ learner_status' = after.status
    /\ at_call' = [critic |-> critic, actor |-> actor,
                   optimizer_steps |-> optimizer_steps]
    /\ learner_calls' = learner_calls + 1
    /\ UNCHANGED <<agent_vars, nstep_vars, sync_vars, loss_vars>>

LearnerNext == UpdateModel

SpecLearner == LearnerInit /\ [][LearnerNext]_vars

\* ----------------------------------------- dqn_base/loss.py, CategoricalLoss
\* network.num_atoms, the number of actions and the batch size.
NumAtoms == 3
NumActions == 2
BatchSize == 2
\* Probabilities are multiples of 1 / Mass.
Mass == 2
\* network.v_min and network.delta_z; v_max = v_min + (num_atoms - 1) * delta_z.
VMin == 1
DeltaZ == 2
\* Rewards of the batch range over 0..LossMaxReward.
LossMaxReward == 1
\* hyper_params.n_step of the loss.
LossNStep == 1

v_min == Rat(VMin, 1)

v_max == Rat(VMin + (NumAtoms - 1) * DeltaZ, 1)

delta_z == Rat(DeltaZ, 1)

\* network.support: atom i (from 0) is v_min + i * delta_z.
support(i) == Rat(VMin + i * DeltaZ, 1)

Rows == 0..(BatchSize - 1)

Atoms == 0..(NumAtoms - 1)

Actions == 0..(NumActions - 1)

RECURSIVE SumTo(_, _)
SumTo(f, k) == IF k = 0 THEN Rat(0, 1) ELSE RatAdd(SumTo(f, k - 1), f[k - 1])

\* The valid distributions over the atoms: probabilities that sum to 1.
Dists == {d \in [Atoms -> {Rat(m, Mass) : m \in 0..Mass}] :
             RatEq(SumTo(d, NumAtoms), Rat(1, 1))}

RatDiv(a, b) == RatNorm(Rat(a[1] * b[2], a[2] * b[1]))

RatFloor(a) == a[1] \div a[2]

RatCeil(a) == -((-a[1]) \div a[2])

\* next_z.mean(2): the arithmetic mean of an action's atom probabilities.
mean_over_atoms(dist) == RatDiv(SumTo(dist, NumAtoms), Rat(NumAtoms, 1))

\* distribution . support: the expected value of an action's distribution.
expected_value(dist) ==
    SumTo([i \in Atoms |-> RatMul(dist[i], support(i))], NumAtoms)

\* torch.max(next_z.mean(2), dim=1)[1] (line 102): an action whose mean is
\* maximal; which one among equal means is not fixed here.
next_action_choices(dists) ==
    {a \in Actions :
        \A o \in Actions : RatLe(mean_over_atoms(dists[o]), mean_over_atoms(dists[a]))}

\* torch.clamp(x, min=v_min, max=v_max)
clamp(x) == IF RatLe(x, v_min) THEN v_min ELSE IF RatLe(v_max, x) THEN v_max ELSE x

\* hyper_params.gamma ** hyper_params.n_step (line 105)
n_step_gamma == Rat(Pow(GammaNum, LossNStep), Pow(GammaDen, LossNStep))

\* Lines 106-107: target_z of one batch row, per atom.
target_z_row(reward, done_flag) ==
    [i \in Atoms |->
        clamp(RatAdd(Rat(reward, 1),
                     RatMul(Rat(1 - done_flag, 1), RatMul(n_step_gamma, support(i)))))]

\* Line 89-95: offset of a batch row into the flattened distribution.
offset(row) == row * NumAtoms

\* tensor.view(-1) of a (batch, atoms) tensor: position row * num_atoms + atom.
Flat(t) == [k \in 0..(BatchSize * NumAtoms - 1) |-> t[k \div NumAtoms][k % NumAtoms]]

\* dst.index_add_(0, index, src) over the first k entries.
RECURSIVE index_add(_, _, _, _)
index_add(dst, index, src, k) ==
    IF k = 0 THEN dst
    ELSE LET d == index_add(dst, index, src, k - 1)
         IN  [d EXCEPT ![index[k - 1]] = RatAdd(@, src[k - 1])]

\* CategoricalLoss.dist_projection (lines 115-134).
dist_projection(next_z, target_z) ==
    LET b == [r \in Rows |-> [i \in Atoms |->
                 RatDiv(RatSub(target_z[r][i], v_min), delta_z)]]
        l == [r \in Rows |-> [i \in Atoms |-> RatFloor(b[r][i])]]
        u == [r \in Rows |-> [i \in Atoms |-> RatCeil(b[r][i])]]
        n == BatchSize * NumAtoms
        zeros == [k \in 0..(n - 1) |-> Rat(0, 1)]
        to_l == index_add(zeros,
                    Flat([r \in Rows |-> [i \in Atoms |-> l[r][i] + offset(r)]]),
                    Flat([r \in Rows |-> [i \in Atoms |->
                        RatMul(next_z[r][i], RatSub(Rat(u[r][i], 1), b[r][i]))]]),
                    n)
        to_u == index_add(to_l,
                    Flat([r \in Rows |-> [i \in Atoms |-> u[r][i] + offset(r)]]),
                    Flat([r \in Rows |-> [i \in Atoms |->
                        RatMul(next_z[r][i], RatSub(b[r][i], Rat(l[r][i], 1)))]]),
                    n)
    IN  [r \in Rows |-> [i \in Atoms |-> to_u[offset(r) + i]]]

\* A batch and target_network.forward(next_states) for it.
LossInit ==
    /\ loss_in \in [next_dists : [Rows -> [Actions -> Dists]],
                    rewards : [Rows -> 0..LossMaxReward],
                    dones : [Rows -> {0, 1}]]
    /\ loss_out = <<>>
    /\ AgentIdle /\ NStepIdle /\ SyncIdle /\ LearnerIdle

\* The no-grad block of CategoricalLoss.__call__ (lines 100-108).
CategoricalTarget ==
    /\ loss_out = <<>>
    /\ \E next_actions \in [Rows -> Actions] :
        /\ \A r \in Rows : next_actions[r] \in next_action_choices(loss_in.next_dists[r])
        /\ LET next_z   == [r \in Rows |-> loss_in.next_dists[r][next_actions[r]]]
               target_z == [r \in Rows |->
                               target_z_row(loss_in.rewards[r], loss_in.dones[r])]
           IN  loss_out' = <<[next_actions |-> next_actions,
                              next_z       |-> next_z,
                              target_z     |-> target_z,
                              target_proj  |-> dist_projection(next_z, target_z)]>>
    /\ UNCHANGED loss_in
    /\ UNCHANGED <<agent_vars, nstep_vars, sync_vars, learner_vars>>

LossNext == CategoricalTarget

SpecLoss == LossInit /\ [][LossNext]_vars

\* ================================================================ claims

\* The rewards of a window, oldest first.
RewardsOf(q) == [i \in 1..Len(q) |-> q[i].reward]

\* Sum over i = 0..k-1 of gamma^i * seq[i + 1].
RECURSIVE DiscountedSum(_, _, _)
DiscountedSum(seq, gamma, k) ==
    IF k = 0 THEN Rat(0, 1)
    ELSE RatAdd(DiscountedSum(seq, gamma, k - 1),
                RatMul(Rat(Pow(gamma[1], k - 1), Pow(gamma[2], k - 1)),
                       Rat(seq[k], 1)))

IsExampleWindow ==
    /\ RewardsOf(n_step_queue) = <<1, 2, 3>>
    /\ RatEq(nstep_gamma, Rat(9, 10))

\* C1 (as stated): the aggregated reward of a window r_0 (oldest) .. r_{n-1}
\* (newest) is the sum over i of gamma^i * r_{n-1-i}, the newest reward
\* undiscounted; for n = 3, gamma = 0.9, rewards [1, 2, 3] it is 5.61.
C1_NewestRewardUndiscounted ==
    n_step_transition # <<>> =>
        /\ RatEq(n_step_transition[1].reward,
                 DiscountedSum(Reversed(RewardsOf(n_step_queue)), nstep_gamma,
                               Len(n_step_queue)))
        /\ IsExampleWindow => RatEq(n_step_transition[1].reward, Rat(561, 100))

\* C1 (amended): the aggregated reward of a window r_0 (oldest) .. r_{n-1}
\* (newest) is the sum over i of gamma^i * r_i, the oldest reward undiscounted
\* and the newest discounted by gamma^(n-1); for n = 3, gamma = 0.9, rewards
\* [1, 2, 3] it is 1 + 0.9*2 + 0.81*3 = 5.23.
C1_OldestRewardUndiscounted ==
    n_step_transition # <<>> =>
        /\ RatEq(n_step_transition[1].reward,
                 DiscountedSum(RewardsOf(n_step_queue), nstep_gamma,
                               Len(n_step_queue)))
        /\ IsExampleWindow => RatEq(n_step_transition[1].reward, Rat(523, 100))

\* C1 witness: the example window has been aggregated.
C1_Witness == n_step_transition # <<>> /\ IsExampleWindow

\* C2: the projected distribution of every batch row sums to 1 whenever the
\* next-state distribution sums to 1 and target_z is clamped, also when b is an
\* exact integer.
C2_ProjectionPreservesMass ==
    loss_out # <<>> =>
        \A r \in Rows : RatEq(SumTo(loss_out[1].target_proj[r], NumAtoms), Rat(1, 1))

\* Observation ids <<episode, t>> in the order the environment produced them.
NotAfter(a, b) == a[1] < b[1] \/ (a[1] = b[1] /\ a[2] <= b[2])

\* C3 (as stated): with n-step enabled a full window is consumed wholesale: no
\* two aggregated transitions share a transition, and after k environment steps
\* at most floor(k / n_step) transitions have been added to the buffer.
C3_WindowConsumedWholesale ==
    use_n_step =>
        /\ Len(replay_buffer) * hyper_params.n_step <= step
        /\ \A i, j \in 1..Len(replay_buffer) :
               i < j => NotAfter(replay_buffer[i].next_state, replay_buffer[j].state)

\* C3 (amended): with n-step enabled the window slides: once the queue has
\* held n_step transitions it stays full, every later environment step adds one
\* aggregated transition, and after k environment steps exactly
\* max(0, k - n_step + 1) transitions have been added to the buffer.
C3_WindowSlides ==
    use_n_step =>
        /\ Len(replay_buffer) =
               IF step >= hyper_params.n_step THEN step - hyper_params.n_step + 1 ELSE 0
        /\ Len(transition_queue) =
               IF step >= hyper_params.n_step THEN hyper_params.n_step ELSE step

\* C3 witness: two aggregated transitions that share a transition.
C3_Witness ==
    /\ use_n_step
    /\ Len(replay_buffer) >= 2
    /\ ~NotAfter(replay_buffer[1].next_state, replay_buffer[2].state)

\* C4: update_model is called at an environment step iff, after the step's
\* transition handling, the buffer holds at least update_starting_point
\* transitions and the global step counter is a multiple of train_freq; at every
\* other step no sample is drawn and update_step is unchanged.
C4_UpdateGating ==
    [][ /\ step' = step + 1 =>
            LET gate == /\ Len(replay_buffer') >= hyper_params.update_starting_point
                        /\ step' % hyper_params.train_freq = 0
            IN  /\ (update_calls' = update_calls + 1) <=> gate
                /\ ~gate => /\ update_calls' = update_calls
                            /\ sample_calls' = sample_calls
                            /\ update_step' = update_step
        /\ step' = step =>
            /\ update_calls' = update_calls
            /\ sample_calls' = sample_calls
            /\ update_step' = update_step
      ]_vars

\* C4 witness: in a later episode, some steps have updated the model and some
\* have not.
C4_Witness ==
    /\ episode_i > 0
    /\ pc = "step"
    /\ update_calls > 0
    /\ update_calls < step

\* C5: a failure of write_log or save_params does not end train(): when train()
\* is over and no update failed, every episode has been run.
C5_IOFailureDoesNotAbort ==
    (pc \in {"done", "aborted"} /\ raised \in {"none", "write_log", "save_params"})
        => episode_i = experiment_info.total_num_episodes

\* C6: update_model never partially applies: when it returns both optimizers
\* have stepped, and when it raises no parameter has changed.
C6_UpdateNeverPartial ==
    /\ learner_status = "returned" =>
           /\ optimizer_steps.critic = at_call.optimizer_steps.critic + 1
           /\ optimizer_steps.actor = at_call.optimizer_steps.actor + 1
    /\ learner_status \notin {"idle", "returned"} =>
           /\ critic = at_call.critic
           /\ actor = at_call.actor

\* C7: the bootstrap action of every batch row maximizes the expected value
\* (distribution . support) of the target network's next-state distribution.
C7_NextActionMaximizesExpectedValue ==
    loss_out # <<>> =>
        \A r \in Rows : \A o \in Actions :
            RatLe(expected_value(loss_in.next_dists[r][o]),
                  expected_value(loss_in.next_dists[r][loss_out[1].next_actions[r]]))

RatMin(a, b) == IF RatLe(a, b) THEN a ELSE b

RatMax(a, b) == IF RatLe(a, b) THEN b ELSE a

\* C8: soft_update with 0 < tau <= 1 leaves every target parameter within
\* [min(p, t), max(p, t)], leaves the live parameters unchanged, and with
\* tau = 1 gives the target hard_update gives.
C8_SoftUpdateConvex ==
    last_sync.op = "soft_update" =>
        /\ network = sync_before.network
        /\ \A i \in 1..Len(target_network) :
            LET p == sync_before.network[i]
                t == sync_before.target_network[i]
            IN  /\ RatLe(RatMin(p, t), target_network[i])
                /\ RatLe(target_network[i], RatMax(p, t))
        /\ RatEq(last_sync.tau, Rat(1, 1)) =>
            \A i \in 1..Len(target_network) :
                RatEq(target_network[i],
                      hard_update(sync_before.network,
                                  sync_before.target_network).target_network[i])

\* C8 witness: a soft update with tau < 1 has moved a target parameter strictly
\* between its old value and the live parameter.
C8_Witness ==
    /\ last_sync.op = "soft_update"
    /\ ~RatEq(last_sync.tau, Rat(1, 1))
    /\ \E i \in 1..Len(target_network) :
        /\ ~RatEq(target_network[i], sync_before.network[i])
        /\ ~RatEq(target_network[i], sync_before.target_network[i])

\* C9: between environment steps the number of decay_epsilon calls equals
\* update_step: epsilon decays once per update and never without one.
C9_DecayOncePerUpdate ==
    pc \in {"reset", "step", "episode_end", "done"} => decay_calls = update_step

\* C9 witness: inside an episode some steps have updated the model and some
\* have not.
C9_Witness ==
    /\ pc = "step"
    /\ update_step > 0
    /\ update_step < step

\* C10: with n-step enabled every aggregated window holds n consecutive
\* transitions of one episode: done is set at most on its newest transition and
\* all its transitions come from the same episode.
C10_WindowWithinOneEpisode ==
    (use_n_step /\ Len(transition_queue) = hyper_params.n_step) =>
        \A i \in 1..(Len(transition_queue) - 1) :
            /\ ~transition_queue[i].done
            /\ transition_queue[i].state[1] =
                   transition_queue[Len(transition_queue)].state[1]

====
